---- MODULE Spec2Model ----
\* Model of mixer/blender_data/filter.py (the Filter classes, FilterStack and
\* SynchronizedProperties, with the host (bpy) types and properties as data)
\* and of the depsgraph update handler of mixer/handlers_generic.py.
EXTENDS Integers, Sequences, FiniteSets, Bags, TLC

VARIABLES
    filter_stack,      \* FilterStack._filter_stack: the list of layers (dicts)
    DEBUG,             \* the module flag DEBUG
    _properties,       \* SynchronizedProperties._properties: dict bl_rna -> {identifier: property}
    _unhandled_bpy_data_collection_names,  \* SynchronizedProperties._unhandled_bpy_data_collection_names
    rna_properties,    \* the host's bl_rna.properties of every type
    call,              \* the last call made on the objects, with what it returned or raised
    threads,           \* the threads inside properties(): their position and their locals
    cache_writes,      \* how many times self._properties[bl_rna] was assigned, per type
    evaluations,       \* how many times self._filter_stack.apply was called, per type
    heap,              \* the list objects: each FilterStack's _filter_stack, and a caller's list
    stacks,            \* test_filter and safe_filter: the list object each one holds
    stack_call,        \* the last call made on one of the two stacks
    share_data,        \* mixer.share_data.share_data, with its client and its bpy_data_proxy
    handler_call       \* the last run of send_scene_data_to_server: its inputs, the calls it made

\* The variables of a SynchronizedProperties and its FilterStack.
cacheVars == <<filter_stack, DEBUG, _properties, _unhandled_bpy_data_collection_names,
               rna_properties, call>>
\* The variables of concurrent calls of properties().
threadVars == <<threads, cache_writes, evaluations>>
\* The variables of the two module-level stacks.
stackVars == <<heap, stacks, stack_call>>
\* The variables of the depsgraph update handler.
handlerVars == <<share_data, handler_call>>

vars == <<cacheVars, threadVars, stackVars, handlerVars>>

\* Python's None, for a field that holds a name or a type otherwise.
None == "None"

----------------------------------------------------------------------------
\* Bounds of the model.

\* The longest FilterStack built.
MaxLayers == 2

\* The number of threads that call properties() on one instance.
MaxThreads == 2

----------------------------------------------------------------------------
\* The host: bpy types, their single base and their properties.

\* Struct types that are queried and used as FilterSet keys.
Types == {"Derived", "Base", "Root", "BlendData"}

\* bl_rna.base of each type: Derived -> Base -> Root, BlendData has none.
rna_base(bl_rna) ==
    CASE bl_rna = "Derived" -> "Base"
      [] bl_rna = "Base" -> "Root"
      [] OTHER -> None

\* A property of a type: its identifier, the rna of the property itself
\* (p.bl_rna), the element type of a collection (p.srna) and the type a
\* pointer property refers to (p.fixed_type).
Prop(identifier, bl_rna, srna, fixed_type) ==
    [identifier |-> identifier, bl_rna |-> bl_rna, srna |-> srna, fixed_type |-> fixed_type]

scalarOfX == Prop("vertex", "MeshVertex", None, None)
collectionOfX == Prop("vertices", "CollectionProperty", "MeshVertex", None)
collectionOfY == Prop("cameras", "CollectionProperty", "Camera", None)
collectionOfUnknown == Prop("brushes", "CollectionProperty", None, None)
pointerToX == Prop("parent", "PointerProperty", None, "MeshVertex")
scalarName == Prop("name", "StringProperty", None, None)
scalarUsers == Prop("users", "IntProperty", None, None)

\* The property lists a type may declare (bl_rna.properties), identifiers
\* unique within a list as in the host.
PropertyLists ==
    { <<>>,
      <<scalarOfX, collectionOfX, collectionOfY>>,
      <<collectionOfY, collectionOfUnknown, pointerToX, scalarName>>,
      <<scalarName, scalarUsers, collectionOfX, collectionOfUnknown, scalarOfX>> }

\* mixer.blender_data.types.is_pointer_to(property, type): the property is a
\* pointer property that refers to the type.
is_pointer_to(p, t) == p.bl_rna = "PointerProperty" /\ p.fixed_type = t

\* Names of properties that are always excluded.
_exclude_names ==
    { "type_info", "depsgraph", "rna_type", "is_evaluated", "original", "users",
      "use_fake_user", "tag", "is_library_indirect", "library", "override_library",
      "preview", "mixer_uuid" }

----------------------------------------------------------------------------
\* Sequence helpers.

RECURSIVE SelectAttrs(_, _)
\* [p for p in properties if keep(p)], keep given as the set of kept positions.
SelectAttrs(properties, kept) ==
    IF properties = <<>> THEN <<>>
    ELSE LET n == Len(properties)
             front == SelectAttrs(SubSeq(properties, 1, n - 1), kept)
         IN IF n \in kept THEN Append(front, properties[n]) ELSE front

\* The elements of a list, as a set.
Range(s) == { s[i] : i \in DOMAIN s }

RECURSIVE ListOf(_)
\* list(names) of a set of names, as NameFilter.__init__ makes it: its elements
\* once each, in an order that is not defined.
ListOf(names) ==
    IF names = {} THEN <<>>
    ELSE LET name == CHOOSE n \in names : TRUE
         IN <<name>> \o ListOf(names \ {name})

\* A log of warnings: the bag of the names warned about.
NoLog == EmptyBag
LogSum(a, b) == a (+) b

----------------------------------------------------------------------------
\* The Filter classes.  A filter is a record: its class (kind), TypeFilter._types
\* and NameFilter._names.

MakeFilter(kind, types, names) == [kind |-> kind, _types |-> types, _names |-> names]
TypeFilterIn(types) == MakeFilter("TypeFilterIn", types, <<>>)
TypeFilterOut(types) == MakeFilter("TypeFilterOut", types, <<>>)
CollectionFilterOut(types) == MakeFilter("CollectionFilterOut", types, <<>>)
NameFilterIn(names) == MakeFilter("NameFilterIn", {}, names)
NameFilterOut(names) == MakeFilter("NameFilterOut", {}, names)
FuncFilterOut == MakeFilter("FuncFilterOut", {}, <<>>)

\* TypeFilter.matches
matches(self, bl_rna_property) ==
    \/ bl_rna_property.bl_rna \in self._types
    \/ \E t \in self._types : is_pointer_to(bl_rna_property, t)

\* TypeFilterIn.apply
TypeFilterIn_apply(self, properties) ==
    SelectAttrs(properties, { i \in DOMAIN properties : matches(self, properties[i]) })

\* TypeFilterOut.apply
TypeFilterOut_apply(self, properties) ==
    SelectAttrs(properties, { i \in DOMAIN properties : ~matches(self, properties[i]) })

\* CollectionFilterOut.apply: `A or B and C` binds as `A or (B and C)`, and a
\* srna of None is falsy.
CollectionFilterOut_apply(self, properties) ==
    SelectAttrs(properties,
        { i \in DOMAIN properties :
            \/ properties[i].bl_rna # "CollectionProperty"
            \/ (properties[i].srna # None /\ properties[i].srna \notin self._types) })

\* Mutant of NameFilter.check_unknown: unknowns taken from self._names itself,
\* not from the set of them, so a name given twice is warned about twice.
check_unknown_PerOccurrence(self, properties) ==
    LET identifiers == { properties[i].identifier : i \in DOMAIN properties }
        unknowns == { k \in DOMAIN self._names :
                        /\ self._names[k] \notin _exclude_names
                        /\ self._names[k] \notin identifiers }
    IN [n \in { self._names[k] : k \in unknowns } |->
            Cardinality({ k \in unknowns : self._names[k] = n })]

\* NameFilter.check_unknown: the warnings it logs, one per element of unknowns.
check_unknown(self, properties) ==
    LET identifiers == { properties[i].identifier : i \in DOMAIN properties }
        local_exclusions == Range(self._names) \ _exclude_names
        unknowns == { name \in local_exclusions : name \notin identifiers }
    IN SetToBag(unknowns)

\* The list NameFilterOut.apply returns.
NameFilterOut_apply(self, properties) ==
    SelectAttrs(properties,
        { i \in DOMAIN properties : properties[i].identifier \notin Range(self._names) })

\* Mutant of NameFilterIn.apply: the kept properties in the order of the names.
NameFilterIn_apply_ByNames(self, properties) ==
    LET RECURSIVE ByName(_)
        ByName(k) ==
            IF k > Len(self._names) THEN <<>>
            ELSE SelectAttrs(properties,
                     { i \in DOMAIN properties : properties[i].identifier = self._names[k] })
                 \o ByName(k + 1)
    IN ByName(1)

\* The list NameFilterIn.apply returns.
NameFilterIn_apply(self, properties) ==
    SelectAttrs(properties,
        { i \in DOMAIN properties : properties[i].identifier \in Range(self._names) })

\* filter_.apply(properties) as FilterStack.apply calls it: the list returned,
\* the warnings logged, and the exception raised if any.  FuncFilterOut defines
\* no apply method, so the attribute lookup raises AttributeError.
Filter_apply(filter_, properties, debug) ==
    LET out(list, log) == [properties |-> list, log |-> log, raised |-> None]
        checked == IF debug THEN check_unknown(filter_, properties) ELSE NoLog
    IN CASE filter_.kind = "TypeFilterIn" -> out(TypeFilterIn_apply(filter_, properties), NoLog)
         [] filter_.kind = "TypeFilterOut" -> out(TypeFilterOut_apply(filter_, properties), NoLog)
         [] filter_.kind = "CollectionFilterOut" ->
                out(CollectionFilterOut_apply(filter_, properties), NoLog)
         [] filter_.kind = "NameFilterOut" -> out(NameFilterOut_apply(filter_, properties), checked)
         [] filter_.kind = "NameFilterIn" -> out(NameFilterIn_apply(filter_, properties), checked)
         [] OTHER -> [properties |-> properties, log |-> NoLog, raised |-> "AttributeError"]

----------------------------------------------------------------------------
\* FilterSet and FilterStack.  A FilterSet is a dict: a function from some of
\* the keys (types, or None for every type) to a value, which is a list of
\* filters or a single Filter (iterable = FALSE, held in a one-element list).

Keys == Types \cup {None}

FilterList(filters) == [iterable |-> TRUE, filters |-> filters]
SingleFilter(filter_) == [iterable |-> FALSE, filters |-> <<filter_>>]

\* Mutant of bases: the type and its direct base only, then None.
bases_DirectOnly(bl_rna) ==
    IF bl_rna = None THEN <<None>>
    ELSE IF rna_base(bl_rna) = None THEN <<bl_rna, None>>
    ELSE <<bl_rna, rna_base(bl_rna), None>>

RECURSIVE bases(_)
\* bases(bl_rna): the type, its bases most specific first, then None.
bases(bl_rna) ==
    IF bl_rna = None THEN <<None>>
    ELSE <<bl_rna>> \o bases(rna_base(bl_rna))

\* filter_set.get(bl_rna, []), made a list when it is a single Filter.
FilterSet_get(filter_set, bl_rna) ==
    IF bl_rna \in DOMAIN filter_set THEN filter_set[bl_rna].filters ELSE <<>>

RECURSIVE LayerSteps(_, _, _)
\* The filters FilterStack.apply fetches for one class_, layer by layer.
LayerSteps(stack, class_, i) ==
    IF i > Len(stack) THEN <<>>
    ELSE LET filters == FilterSet_get(stack[i], class_)
         IN [k \in 1..Len(filters) |->
                [class_ |-> class_, layer |-> i, index |-> k, filter |-> filters[k]]]
            \o LayerSteps(stack, class_, i + 1)

\* Mutant of FilterStack.apply: the loop over the layers outside the loop
\* over the classes.
ChainSteps_LayerOuter(stack, chain, c) ==
    LET one(i, class_) ==
            [k \in 1..Len(FilterSet_get(stack[i], class_)) |->
                [class_ |-> class_, layer |-> i, index |-> k,
                 filter |-> FilterSet_get(stack[i], class_)[k]]]
        RECURSIVE overChain(_, _)
        overChain(i, d) ==
            IF d > Len(chain) THEN <<>> ELSE one(i, chain[d]) \o overChain(i, d + 1)
        RECURSIVE overLayers(_)
        overLayers(i) ==
            IF i > Len(stack) THEN <<>> ELSE overChain(i, c) \o overLayers(i + 1)
    IN overLayers(1)

RECURSIVE ChainSteps(_, _, _)
RECURSIVE ChainSteps_FirstMatch(_, _, _)
\* Mutant of FilterStack.apply: the most specific class that has filters
\* overrides its bases and None.
ChainSteps_FirstMatch(stack, chain, c) ==
    IF c > Len(chain) THEN <<>>
    ELSE IF LayerSteps(stack, chain[c], 1) # <<>> THEN LayerSteps(stack, chain[c], 1)
    ELSE ChainSteps(stack, chain, c + 1)

\* The filters FilterStack.apply applies, in the order of its three loops.
ChainSteps(stack, chain, c) ==
    IF c > Len(chain) THEN <<>>
    ELSE LayerSteps(stack, chain[c], 1) \o ChainSteps(stack, chain, c + 1)

RECURSIVE RunSteps(_, _, _, _)
\* properties = filter_.apply(properties) for each step; an exception ends it.
RunSteps(steps, k, acc, debug) ==
    IF k > Len(steps) \/ acc.raised # None THEN acc
    ELSE LET r == Filter_apply(steps[k].filter, acc.properties, debug)
             entry == [class_ |-> steps[k].class_, layer |-> steps[k].layer,
                       index |-> steps[k].index, filter |-> steps[k].filter,
                       input |-> acc.properties, output |-> r.properties, log |-> r.log,
                       raised |-> r.raised]
         IN RunSteps(steps, k + 1,
                [properties |-> r.properties, raised |-> r.raised,
                 log |-> LogSum(acc.log, r.log), applied |-> Append(acc.applied, entry)],
                debug)

\* FilterStack.apply(bl_rna, properties): the list returned, with the filter
\* invocations made (applied), the warnings logged and the exception raised.
FilterStack_apply(stack, bl_rna, properties, debug) ==
    RunSteps(ChainSteps(stack, bases(bl_rna), 1), 1,
        [properties |-> properties, raised |-> None, log |-> NoLog, applied |-> <<>>],
        debug)

\* FilterStack.append: the keys become their bl_rna (a type and its bl_rna are
\* one value here), the values are taken as they are.
FilterStack_append(stack, filter_set) ==
    Append(stack, [k \in DOMAIN filter_set |-> filter_set[k]])

----------------------------------------------------------------------------
\* SynchronizedProperties.

RECURSIVE DictFromList(_)
\* {p.identifier: p for p in filtered_properties} as the list of its items: a
\* dict keeps the place of a key's first insertion and the value of its last.
DictFromList(filtered_properties) ==
    IF filtered_properties = <<>> THEN <<>>
    ELSE LET n == Len(filtered_properties)
             p == filtered_properties[n]
             front == DictFromList(SubSeq(filtered_properties, 1, n - 1))
             at == { i \in DOMAIN front : front[i][1] = p.identifier }
         IN IF at = {} THEN Append(front, <<p.identifier, p>>)
            ELSE [i \in DOMAIN front |-> IF i \in at THEN <<p.identifier, p>> ELSE front[i]]

\* A dict with no key.
EmptyDict == [k \in {} |-> <<>>]

\* What a call leaves in `call`.
Call(op, bl_rna_property, bpy_type, r) ==
    [op |-> op, bl_rna_property |-> bl_rna_property, bpy_type |-> bpy_type,
     bl_rna |-> r.bl_rna, input |-> r.input, ret |-> r.ret, raised |-> r.raised,
     applied |-> r.applied, log |-> r.log]

\* The outcome of a call that applies no filter.
Plain(bl_rna, ret, raised) ==
    [bl_rna |-> bl_rna, input |-> <<>>, ret |-> ret, raised |-> raised,
     applied |-> <<>>, log |-> NoLog]

NoCall == Call("none", None, None, Plain(None, <<>>, None))

\* The cache miss of properties(): the filtering, and the entry it stores.
properties_miss(cache, stack, schema, debug, bl_rna) ==
    LET r == FilterStack_apply(stack, bl_rna, schema[bl_rna], debug)
        bl_rna_properties == DictFromList(r.properties)
    IN IF r.raised # None
       THEN [cache |-> cache,
             out |-> [bl_rna |-> bl_rna, input |-> schema[bl_rna], ret |-> <<>>,
                      raised |-> r.raised, applied |-> r.applied, log |-> r.log]]
       ELSE [cache |-> [k \in (DOMAIN cache) \cup {bl_rna} |->
                           IF k = bl_rna THEN bl_rna_properties ELSE cache[k]],
             out |-> [bl_rna |-> bl_rna, input |-> schema[bl_rna],
                      ret |-> bl_rna_properties, raised |-> None,
                      applied |-> r.applied, log |-> r.log]]

\* Mutant of properties(): `if not bl_rna_properties` for `is None`, so a
\* cached empty dict is computed again.
properties_RecomputeEmpty(cache, stack, schema, debug, bl_rna_property, bpy_type) ==
    IF bl_rna_property = None /\ bpy_type = None
    THEN [cache |-> cache, out |-> Plain(None, <<>>, None)]
    ELSE IF bl_rna_property # None /\ bpy_type # None
    THEN [cache |-> cache, out |-> Plain(None, <<>>, "ValueError")]
    ELSE LET bl_rna == IF bl_rna_property # None THEN bl_rna_property ELSE bpy_type
         IN IF bl_rna \in DOMAIN cache /\ cache[bl_rna] # <<>>
            THEN [cache |-> cache, out |-> Plain(bl_rna, cache[bl_rna], None)]
            ELSE properties_miss(cache, stack, schema, debug, bl_rna)

\* Mutant of properties(): without the check of both arguments given, so the
\* call goes on with bl_rna_property.
properties_NoDoubleCheck(cache, stack, schema, debug, bl_rna_property, bpy_type) ==
    IF bl_rna_property = None /\ bpy_type = None
    THEN [cache |-> cache, out |-> Plain(None, <<>>, None)]
    ELSE LET bl_rna == IF bl_rna_property # None THEN bl_rna_property ELSE bpy_type
         IN IF bl_rna \in DOMAIN cache
            THEN [cache |-> cache, out |-> Plain(bl_rna, cache[bl_rna], None)]
            ELSE properties_miss(cache, stack, schema, debug, bl_rna)

\* SynchronizedProperties.properties(bl_rna_property, bpy_type): the outcome
\* (as in `call`) and the cache it leaves.
properties(cache, stack, schema, debug, bl_rna_property, bpy_type) ==
    IF bl_rna_property = None /\ bpy_type = None
    THEN [cache |-> cache, out |-> Plain(None, <<>>, None)]
    ELSE IF bl_rna_property # None /\ bpy_type # None
    THEN [cache |-> cache, out |-> Plain(None, <<>>, "ValueError")]
    ELSE LET bl_rna == IF bl_rna_property # None THEN bl_rna_property ELSE bpy_type
         IN IF bl_rna \in DOMAIN cache
            THEN [cache |-> cache, out |-> Plain(bl_rna, cache[bl_rna], None)]
            ELSE properties_miss(cache, stack, schema, debug, bl_rna)

\* mixer.blender_data.blenddata.collection_name_to_type.keys(): the names of
\* the collections of bpy.data.
collection_name_to_type_keys(schema) ==
    { schema["BlendData"][i].identifier :
        i \in { j \in DOMAIN schema["BlendData"] :
                  schema["BlendData"][j].bl_rna = "CollectionProperty" } }

\* The attribute when it is None, and when it holds a list (kept as a set:
\* list(a set) has no defined order).
IsNone == [is_None |-> TRUE, names |-> {}]
Some(names) == [is_None |-> FALSE, names |-> names]

\* Mutant of unhandled_bpy_data_collection_names: `if not self._unhandled...`
\* for `is None`, so an empty list is computed again.
unhandled_RecomputeEmpty(unhandled, cache, stack, schema, debug) ==
    IF unhandled.is_None \/ unhandled.names = {}
    THEN LET q == properties(cache, stack, schema, debug, None, "BlendData")
             handled == { q.out.ret[i][1] : i \in DOMAIN q.out.ret }
             names == collection_name_to_type_keys(schema) \ handled
         IN IF q.out.raised # None
            THEN [cache |-> q.cache, unhandled |-> unhandled, out |-> q.out]
            ELSE [cache |-> q.cache, unhandled |-> Some(names),
                  out |-> [q.out EXCEPT !.ret = names]]
    ELSE [cache |-> cache, unhandled |-> unhandled,
          out |-> Plain(None, unhandled.names, None)]

\* SynchronizedProperties.unhandled_bpy_data_collection_names: the outcome, the
\* cache and the attribute it leaves.
unhandled_bpy_data_collection_names(unhandled, cache, stack, schema, debug) ==
    IF unhandled.is_None
    THEN LET q == properties(cache, stack, schema, debug, None, "BlendData")
             handled == { q.out.ret[i][1] : i \in DOMAIN q.out.ret }
             names == collection_name_to_type_keys(schema) \ handled
         IN IF q.out.raised # None
            THEN [cache |-> q.cache, unhandled |-> unhandled, out |-> q.out]
            ELSE [cache |-> q.cache, unhandled |-> Some(names),
                  out |-> [q.out EXCEPT !.ret = names]]
    ELSE [cache |-> cache, unhandled |-> unhandled,
          out |-> Plain(None, unhandled.names, None)]

----------------------------------------------------------------------------
\* The filters and FilterSets the stacks are built from.

\* Mutant of blenddata_exclude: cameras, a safe collection, excluded as well.
blenddata_exclude_WithCameras ==
    <<"brushes", "actions", "screens", "window_managers", "workspaces", "cameras">>

\* Members of bpy.data that are excluded from synchronization.
blenddata_exclude == <<"brushes", "actions", "screens", "window_managers", "workspaces">>

\* default_exclusions, cut to the keys of the model: the rules of None and of
\* T.BlendData, and under Derived and Base the rules of T.Mesh and T.Bone.
default_exclusions ==
    (None :> FilterList(<<TypeFilterOut({"MeshVertex"}), TypeFilterOut({"PoseBone"}),
                          NameFilterOut(ListOf(_exclude_names))>>))
    @@ ("BlendData" :> FilterList(<<NameFilterOut(blenddata_exclude),
                                    TypeFilterIn({"CollectionProperty"})>>))
    @@ ("Base" :> FilterList(<<NameFilterOut(<<"parent">>)>>))
    @@ ("Derived" :> FilterList(<<NameFilterIn(<<"name">>)>>))

safe_exclusions == EmptyDict

safe_blenddata_collections ==
    <<"cameras", "collections", "grease_pencils", "images", "lattices", "lights", "materials",
      "meshes", "metaballs", "objects", "scenes", "sounds", "worlds">>

safe_blenddata == ("BlendData" :> FilterList(<<NameFilterIn(safe_blenddata_collections)>>))

\* The FilterSets appended where FilterStack.apply is evaluated on its own: the
\* default configuration, every class of filter under several keys of the
\* chain Derived, Base, Root, None, and values that are a single Filter
\* instead of a list.
ApplyFilterSets ==
    { default_exclusions, safe_exclusions, safe_blenddata,
      (None :> FilterList(<<NameFilterIn(<<"vertex", "vertices", "cameras">>)>>)),
      ("Derived" :> FilterList(<<NameFilterIn(<<"vertex", "vertices", "cameras">>)>>)),
      ("Base" :> FilterList(<<NameFilterOut(<<"vertices">>)>>)),
      (None :> FilterList(<<NameFilterOut(<<"vertices">>)>>)),
      ("Root" :> FilterList(<<NameFilterOut(<<"vertices", "users", "typo", "typo">>)>>)),
      ("Base" :> FilterList(<<TypeFilterOut({"MeshVertex"})>>)),
      ("Derived" :> FilterList(<<CollectionFilterOut({"MeshVertex"})>>))
          @@ ("Root" :> FilterList(<<TypeFilterIn({"CollectionProperty"})>>)),
      (None :> FilterList(<<CollectionFilterOut({"MeshVertex"})>>)),
      ("Root" :> FilterList(<<CollectionFilterOut({"MeshVertex", "Camera"}),
                              NameFilterIn(<<"name", "brushes", "cameras", "typo">>)>>)),
      ("Base" :> SingleFilter(NameFilterOut(<<"name">>))),
      ("Root" :> SingleFilter(FuncFilterOut)),
      (None :> FilterList(<<FuncFilterOut>>)) }

\* The FilterSets appended to the stack of a SynchronizedProperties.
PropertiesFilterSets ==
    { default_exclusions, safe_exclusions, safe_blenddata,
      ("Root" :> FilterList(<<TypeFilterIn({"Camera"})>>)),
      ("Derived" :> SingleFilter(FuncFilterOut)) }

\* The hosts: what every type declares.
Schemas ==
    { [t \in Types |->
          CASE t = "Derived" -> <<scalarName, scalarUsers, collectionOfX, collectionOfUnknown, scalarOfX>>
            [] t = "Base" -> <<collectionOfY, collectionOfUnknown, pointerToX, scalarName>>
            [] t = "Root" -> <<scalarOfX, collectionOfX, collectionOfY>>
            [] OTHER -> <<collectionOfY, collectionOfUnknown, pointerToX, scalarName>>],
      [t \in Types |->
          CASE t = "BlendData" -> <<scalarName, scalarUsers, collectionOfX, collectionOfUnknown, scalarOfX>>
            [] t = "Root" -> <<>>
            [] OTHER -> <<scalarOfX, collectionOfX, collectionOfY>>],
      [t \in Types |-> IF t = "BlendData" THEN <<>> ELSE <<scalarName, scalarUsers>>] }

\* The arguments properties() is called with.
QueryArgs == { "Derived", "Root", "BlendData", None }

----------------------------------------------------------------------------
\* Threads inside SynchronizedProperties.properties().  A thread is at one of
\* the places where another thread may run in between: before the lookup of
\* the cache ("get"), inside FilterStack.apply before its k-th filter
\* ("apply"), before the assignment of the cache ("store"), before the return
\* ("return"), or outside the method ("idle").

Threads == 1..MaxThreads

\* A thread that has not called yet.
IdleThread ==
    [pc |-> "idle", bl_rna |-> None, properties |-> <<>>, k |-> 0,
     bl_rna_properties |-> <<>>, ret |-> <<>>, returned |-> FALSE, raised |-> None]

\* No thread has called, nothing was counted.
InitThreads ==
    /\ threads = [t \in Threads |-> IdleThread]
    /\ cache_writes = [t \in Types |-> 0]
    /\ evaluations = [t \in Types |-> 0]

----------------------------------------------------------------------------
\* The two module-level stacks, test_filter and safe_filter, as objects.  The
\* heap holds the list objects: a FilterStack holds a reference to its
\* _filter_stack list, and a caller of apply passes a reference to its list.

\* Mutant of `[]` in FilterStack.__init__: _filter_stack as a class attribute,
\* one list for every instance.
NewList_ClassAttribute(h) ==
    IF h = <<>> THEN [heap |-> Append(h, <<>>), ref |-> 1] ELSE [heap |-> h, ref |-> 1]

\* `[]`: a new, empty list object.
NewList(h) == [heap |-> Append(h, <<>>), ref |-> Len(h) + 1]

\* FilterStack.__init__: self._filter_stack = []
FilterStack_init(h) == NewList(h)

\* test_filter = FilterStack() and safe_filter = FilterStack(), and the list
\* a caller is going to pass to apply.
StacksConstructed(list) ==
    LET a == FilterStack_init(<<>>)
        b == FilterStack_init(a.heap)
    IN [heap |-> Append(b.heap, list),
        stacks |-> [test_filter |-> a.ref, safe_filter |-> b.ref, properties |-> Len(b.heap) + 1]]

StackNames == {"test_filter", "safe_filter"}

NoStackCall ==
    [op |-> "none", self |-> None, bl_rna |-> None, ret |-> <<>>, raised |-> None]

InitStacks ==
    /\ heap = StacksConstructed(<<>>).heap
    /\ stacks = StacksConstructed(<<>>).stacks
    /\ stack_call = NoStackCall

----------------------------------------------------------------------------
\* The handler send_scene_data_to_server and what it reads and writes.

\* share_data: client.skip_next_depsgraph_update and pending_test_update.
ShareData(skip_next_depsgraph_update, pending_test_update) ==
    [skip_next_depsgraph_update |-> skip_next_depsgraph_update,
     pending_test_update |-> pending_test_update]

\* The datablocks of the scene: two objects, the data of one of them, and a
\* datablock that is not an object.  Empty has no data.
Objects == {"Cube", "Empty"}
Datablocks == Objects \cup {"CubeMesh", "Scene"}
datablock_data(datablock) == IF datablock = "Cube" THEN "CubeMesh" ELSE None

\* What bpy_data_proxy.update returns: a changeset with nothing in it, or
\* one with something of each kind.
Changeset(creations, removals, renames, updates) ==
    [creations |-> creations, removals |-> removals, renames |-> renames, updates |-> updates]
Changesets ==
    { Changeset({}, {}, {}, {}),
      Changeset({"Lamp"}, {"Camera"}, {"Scene"}, {"Cube", "Lamp"}) }

\* A call the handler makes on a collaborator: the function, its argument
\* that matters here, and process_delayed_updates for bpy_data_proxy.update.
Called(fn, arg, flag) == [fn |-> fn, arg |-> arg, flag |-> flag]

\* The handler has not run.
NoHandlerCall ==
    [ran |-> FALSE, skip_next_depsgraph_update |-> FALSE, pending_test_update |-> FALSE,
     depsgraph_updates |-> {}, selected_objects |-> {}, edited |-> {},
     changeset |-> Changeset({}, {}, {}, {}),
     canceled |-> FALSE, delayed_updates |-> {}, updates |-> {},
     process_delayed_updates |-> FALSE, trace |-> <<>>]

InitHandler ==
    /\ share_data = ShareData(FALSE, FALSE)
    /\ handler_call = NoHandlerCall

----------------------------------------------------------------------------
\* The state machine of a SynchronizedProperties and its FilterStack.

Init ==
    /\ filter_stack = <<>>
    /\ DEBUG = TRUE
    /\ _properties = EmptyDict
    /\ _unhandled_bpy_data_collection_names = IsNone
    /\ rna_properties \in Schemas
    /\ call = NoCall
    /\ InitThreads /\ InitStacks /\ InitHandler

\* filter_stack.append(filter_set)
append(filter_set) ==
    /\ Len(filter_stack) < MaxLayers
    /\ filter_stack' = FilterStack_append(filter_stack, filter_set)
    /\ call' = [NoCall EXCEPT !.op = "append"]
    /\ UNCHANGED <<DEBUG, _properties, _unhandled_bpy_data_collection_names, rna_properties>>
    /\ UNCHANGED <<threadVars, stackVars, handlerVars>>

\* synchronized_properties.properties(bl_rna_property, bpy_type)
Properties(bl_rna_property, bpy_type) ==
    LET q == properties(_properties, filter_stack, rna_properties, DEBUG,
                        bl_rna_property, bpy_type)
    IN /\ _properties' = q.cache
       /\ call' = Call("properties", bl_rna_property, bpy_type, q.out)
       /\ UNCHANGED <<filter_stack, DEBUG, _unhandled_bpy_data_collection_names, rna_properties>>
       /\ UNCHANGED <<threadVars, stackVars, handlerVars>>

\* synchronized_properties.unhandled_bpy_data_collection_names
Unhandled ==
    LET q == unhandled_bpy_data_collection_names(_unhandled_bpy_data_collection_names,
                 _properties, filter_stack, rna_properties, DEBUG)
    IN /\ _properties' = q.cache
       /\ _unhandled_bpy_data_collection_names' = q.unhandled
       /\ call' = Call("unhandled", None, None, q.out)
       /\ UNCHANGED <<filter_stack, DEBUG, rna_properties>>
       /\ UNCHANGED <<threadVars, stackVars, handlerVars>>

AppendConfig == \E filter_set \in PropertiesFilterSets : append(filter_set)

Query == \E bl_rna_property \in QueryArgs, bpy_type \in QueryArgs :
             Properties(bl_rna_property, bpy_type)

Next == AppendConfig \/ Query \/ Unhandled

Spec == Init /\ [][Next]_vars

----------------------------------------------------------------------------
\* FilterStack.apply on any stack: a stack is built of ApplyFilterSets, and
\* then one call is made, with DEBUG on or off: filter_stack.apply for any
\* type, or properties() of a new SynchronizedProperties that holds the stack.
\* Every type declares the same list here, any of PropertyLists.  apply
\* changes nothing, so one call per stack reaches every outcome.

InitApply ==
    /\ filter_stack = <<>>
    /\ DEBUG \in BOOLEAN
    /\ _properties = EmptyDict
    /\ _unhandled_bpy_data_collection_names = IsNone
    /\ rna_properties \in { [t \in Types |-> props] : props \in PropertyLists }
    /\ call = NoCall
    /\ InitThreads /\ InitStacks /\ InitHandler

\* filter_stack.apply(bl_rna, list(bl_rna.properties))
Apply(bl_rna) ==
    LET r == FilterStack_apply(filter_stack, bl_rna, rna_properties[bl_rna], DEBUG)
    IN /\ call' = Call("apply", None, None,
                       [bl_rna |-> bl_rna, input |-> rna_properties[bl_rna],
                        ret |-> IF r.raised = None THEN r.properties ELSE <<>>,
                        raised |-> r.raised, applied |-> r.applied, log |-> r.log])
       /\ UNCHANGED <<filter_stack, DEBUG, _properties, _unhandled_bpy_data_collection_names,
                      rna_properties>>
       /\ UNCHANGED <<threadVars, stackVars, handlerVars>>

\* No call has been made yet.
Building == call.op \in {"none", "append"}

AppendAny == Building /\ \E filter_set \in ApplyFilterSets : append(filter_set)

Evaluate == Building /\ \E bl_rna \in Types : Apply(bl_rna)

QueryOnce == Building /\ \E bpy_type \in Types : Properties(None, bpy_type)

NextApply == AppendAny \/ Evaluate \/ QueryOnce

SpecApply == InitApply /\ [][NextApply]_vars

----------------------------------------------------------------------------
\* Concurrent calls of safe_properties.properties(bpy_type=...): the instance
\* holds safe_filter as the module builds it, and every thread runs the method
\* statement by statement.  The method takes no lock.

\* safe_filter after the three appends of the module.
safe_filter ==
    FilterStack_append(FilterStack_append(FilterStack_append(<<>>,
        default_exclusions), safe_exclusions), safe_blenddata)

\* The types the threads ask for.
ThreadTypes == {"Derived", "BlendData"}

\* Mutant of the lookup in properties(): a miss puts the unfiltered
\* properties in the cache as a placeholder for the entry being computed.
properties_lookup_Publish(cache, schema, bl_rna) ==
    IF bl_rna \in DOMAIN cache
    THEN [cache |-> cache, hit |-> TRUE, bl_rna_properties |-> cache[bl_rna]]
    ELSE [cache |-> [k \in (DOMAIN cache) \cup {bl_rna} |->
                        IF k = bl_rna THEN DictFromList(schema[bl_rna]) ELSE cache[k]],
          hit |-> FALSE, bl_rna_properties |-> <<>>]

\* bl_rna_properties = self._properties.get(bl_rna), and the test `is None`.
properties_lookup(cache, schema, bl_rna) ==
    IF bl_rna \in DOMAIN cache
    THEN [cache |-> cache, hit |-> TRUE, bl_rna_properties |-> cache[bl_rna]]
    ELSE [cache |-> cache, hit |-> FALSE, bl_rna_properties |-> <<>>]

\* self._properties[bl_rna] = bl_rna_properties
properties_store(cache, bl_rna, bl_rna_properties) ==
    [k \in (DOMAIN cache) \cup {bl_rna} |-> IF k = bl_rna THEN bl_rna_properties ELSE cache[k]]

InitThreadsSpec ==
    /\ filter_stack = safe_filter
    /\ DEBUG = TRUE
    /\ _properties = EmptyDict
    /\ _unhandled_bpy_data_collection_names = IsNone
    /\ rna_properties \in Schemas
    /\ call = NoCall
    /\ InitThreads /\ InitStacks /\ InitHandler

\* A thread enters properties(bpy_type=bpy_type): the checks of the arguments
\* pass and bl_rna is bpy_type.bl_rna.
ThreadCall(t, bpy_type) ==
    /\ threads[t].pc = "idle"
    /\ threads' = [threads EXCEPT ![t] = [IdleThread EXCEPT !.pc = "get", !.bl_rna = bpy_type]]
    /\ UNCHANGED <<cache_writes, evaluations, cacheVars, stackVars, handlerVars>>

\* The lookup of the cache: a hit goes to the return, a miss enters
\* self._filter_stack.apply(bl_rna, list(bl_rna.properties)).
ThreadGet(t) ==
    /\ threads[t].pc = "get"
    /\ LET bl_rna == threads[t].bl_rna
           q == properties_lookup(_properties, rna_properties, bl_rna)
       IN /\ _properties' = q.cache
          /\ IF q.hit
             THEN /\ threads' = [threads EXCEPT ![t].pc = "return",
                                                ![t].bl_rna_properties = q.bl_rna_properties]
                  /\ UNCHANGED evaluations
             ELSE /\ threads' = [threads EXCEPT ![t].pc = "apply", ![t].k = 1,
                                                ![t].properties = rna_properties[bl_rna]]
                  /\ evaluations' = [evaluations EXCEPT ![bl_rna] = @ + 1]
    /\ UNCHANGED <<cache_writes, filter_stack, DEBUG, _unhandled_bpy_data_collection_names,
                   rna_properties, call, stackVars, handlerVars>>

\* One turn of the innermost loop of FilterStack.apply:
\* properties = filter_.apply(properties).  An exception leaves the method.
ThreadApplyStep(t) ==
    /\ threads[t].pc = "apply"
    /\ LET steps == ChainSteps(filter_stack, bases(threads[t].bl_rna), 1)
           k == threads[t].k
       IN /\ k <= Len(steps)
          /\ LET r == Filter_apply(steps[k].filter, threads[t].properties, DEBUG)
             IN threads' = [threads EXCEPT ![t] =
                    IF r.raised # None
                    THEN [IdleThread EXCEPT !.bl_rna = threads[t].bl_rna, !.raised = r.raised]
                    ELSE [@ EXCEPT !.properties = r.properties, !.k = k + 1]]
    /\ UNCHANGED <<cache_writes, evaluations, cacheVars, stackVars, handlerVars>>

\* FilterStack.apply returns, and the dict of the filtered properties is built.
ThreadBuild(t) ==
    /\ threads[t].pc = "apply"
    /\ threads[t].k > Len(ChainSteps(filter_stack, bases(threads[t].bl_rna), 1))
    /\ threads' = [threads EXCEPT ![t].pc = "store",
                                  ![t].bl_rna_properties = DictFromList(threads[t].properties)]
    /\ UNCHANGED <<cache_writes, evaluations, cacheVars, stackVars, handlerVars>>

\* self._properties[bl_rna] = bl_rna_properties
ThreadStore(t) ==
    /\ threads[t].pc = "store"
    /\ _properties' = properties_store(_properties, threads[t].bl_rna, threads[t].bl_rna_properties)
    /\ cache_writes' = [cache_writes EXCEPT ![threads[t].bl_rna] = @ + 1]
    /\ threads' = [threads EXCEPT ![t].pc = "return"]
    /\ UNCHANGED <<evaluations, filter_stack, DEBUG, _unhandled_bpy_data_collection_names,
                   rna_properties, call, stackVars, handlerVars>>

\* return bl_rna_properties.items()
ThreadReturn(t) ==
    /\ threads[t].pc = "return"
    /\ threads' = [threads EXCEPT ![t].pc = "idle", ![t].returned = TRUE,
                                  ![t].ret = threads[t].bl_rna_properties]
    /\ UNCHANGED <<cache_writes, evaluations, cacheVars, stackVars, handlerVars>>

NextThreads ==
    \E t \in Threads :
        \/ \E bpy_type \in ThreadTypes : ThreadCall(t, bpy_type)
        \/ ThreadGet(t)
        \/ ThreadApplyStep(t)
        \/ ThreadBuild(t)
        \/ ThreadStore(t)
        \/ ThreadReturn(t)

SpecThreads == InitThreadsSpec /\ [][NextThreads]_vars

----------------------------------------------------------------------------
\* test_filter and safe_filter as two objects: FilterSets of the module are
\* appended to either, in any order, and either is evaluated on the list a
\* caller passes.

\* The FilterSets of the module, which both stacks may be given.
StackFilterSets == { default_exclusions, safe_exclusions, safe_blenddata }

\* The lists a caller passes to apply, and the types it evaluates: one with
\* the whole chain of bases, and T.BlendData.
StackLists == { list \in PropertyLists : Len(list) >= 4 }
StackTypes == {"Derived", "BlendData"}

\* self._filter_stack.append({...}): the list object of the stack gets a new
\* dict; no other object is touched.
FilterStack_append_object(h, ref, filter_set) ==
    [h EXCEPT ![ref] = FilterStack_append(@, filter_set)]

\* Mutant of FilterStack.apply: the filtering is done in the list passed in.
FilterStack_apply_InPlace(h, ref, bl_rna, properties_ref, debug) ==
    LET r == FilterStack_apply(h[ref], bl_rna, h[properties_ref], debug)
    IN [heap |-> [h EXCEPT ![properties_ref] = r.properties], out |-> r]

\* FilterStack.apply on objects: every filter returns a new list and the name
\* properties is bound again, so no object is written.
FilterStack_apply_object(h, ref, bl_rna, properties_ref, debug) ==
    [heap |-> h, out |-> FilterStack_apply(h[ref], bl_rna, h[properties_ref], debug)]

InitStacksSpec ==
    /\ filter_stack = <<>>
    /\ DEBUG = TRUE
    /\ _properties = EmptyDict
    /\ _unhandled_bpy_data_collection_names = IsNone
    /\ rna_properties = [t \in Types |-> <<>>]
    /\ call = NoCall
    /\ \E list \in StackLists :
          /\ heap = StacksConstructed(list).heap
          /\ stacks = StacksConstructed(list).stacks
    /\ stack_call = NoStackCall
    /\ InitThreads /\ InitHandler

\* self.append(filter_set), self being test_filter or safe_filter
StackAppend(self, filter_set) ==
    /\ Len(heap[stacks[self]]) < MaxLayers
    /\ heap' = FilterStack_append_object(heap, stacks[self], filter_set)
    /\ stack_call' = [NoStackCall EXCEPT !.op = "append", !.self = self]
    /\ UNCHANGED <<stacks, cacheVars, threadVars, handlerVars>>

\* self.apply(bl_rna, properties), properties being the caller's list
StackApply(self, bl_rna) ==
    LET r == FilterStack_apply_object(heap, stacks[self], bl_rna, stacks.properties, DEBUG)
    IN /\ heap' = r.heap
       /\ stack_call' = [op |-> "apply", self |-> self, bl_rna |-> bl_rna,
                         ret |-> IF r.out.raised = None THEN r.out.properties ELSE <<>>,
                         raised |-> r.out.raised]
       /\ UNCHANGED <<stacks, cacheVars, threadVars, handlerVars>>

NextStacks ==
    \E self \in StackNames :
        \/ \E filter_set \in StackFilterSets : StackAppend(self, filter_set)
        \/ \E bl_rna \in StackTypes : StackApply(self, bl_rna)

SpecStacks == InitStacksSpec /\ [][NextStacks]_vars

----------------------------------------------------------------------------
\* safe_properties on any bpy.data: the instance holds safe_filter as the
\* module builds it, and T.BlendData declares any part of BlendDataProperties.

\* What T.BlendData may declare: safe collections (one of an excluded element
\* type, one of no element type), an excluded one, one that is not safe, a
\* safe name that is not a collection, and a property that is never
\* synchronized.
BlendDataProperties ==
    << collectionOfY,
       collectionOfUnknown,
       Prop("lights", "CollectionProperty", "MeshVertex", None),
       Prop("scenes", "PointerProperty", None, "Scene"),
       collectionOfX,
       scalarUsers,
       Prop("meshes", "CollectionProperty", None, None) >>

SafeSchemas ==
    { [t \in Types |->
          IF t = "BlendData" THEN SelectAttrs(BlendDataProperties, kept)
          ELSE <<scalarName, scalarUsers>>] :
      kept \in SUBSET DOMAIN BlendDataProperties }

InitSafe ==
    /\ filter_stack = safe_filter
    /\ DEBUG = TRUE
    /\ _properties = EmptyDict
    /\ _unhandled_bpy_data_collection_names = IsNone
    /\ rna_properties \in SafeSchemas
    /\ call = NoCall
    /\ InitThreads /\ InitStacks /\ InitHandler

\* safe_properties.properties(bpy_type=...)
QuerySafe == \E bpy_type \in {"BlendData", "Derived"} : Properties(None, bpy_type)

NextSafe == QuerySafe \/ Unhandled

SpecSafe == InitSafe /\ [][NextSafe]_vars

----------------------------------------------------------------------------
\* The depsgraph update handler, send_scene_data_to_server.  The depsgraph,
\* the selection and the modes of the objects are what the host has when the
\* handler runs; the changeset is what bpy_data_proxy.update returns.

\* Mutant of the test that cancels the handler: pending_test_update not looked at.
is_canceled_IgnoringTest(sd) == sd.skip_next_depsgraph_update

\* not share_data.pending_test_update and share_data.client.skip_next_depsgraph_update
is_canceled(sd) == ~sd.pending_test_update /\ sd.skip_next_depsgraph_update

\* Mutant of the loop that fills delayed_updates: the data of a delayed
\* object is not delayed.
DelayedUpdates_WithoutData(updates, selected_objects, edited) ==
    { datablock \in updates :
        /\ datablock \in selected_objects
        /\ datablock \in edited
        /\ datablock_data(datablock) # None }

\* delayed_updates after the loop over updates; edited holds the objects
\* whose mode is not "OBJECT".
DelayedUpdates(updates, selected_objects, edited) ==
    UNION { {datablock, datablock_data(datablock)} :
            datablock \in { d \in updates :
                               /\ d \in selected_objects
                               /\ d \in edited
                               /\ datablock_data(d) # None } }

\* Mutant of the four sends: the updates sent first.
SendChangeset_UpdatesFirst(changeset) ==
    << Called("send_data_updates", changeset.updates, FALSE),
       Called("send_data_creations", changeset.creations, FALSE),
       Called("send_data_removals", changeset.removals, FALSE),
       Called("send_data_renames", changeset.renames, FALSE) >>

\* The four calls of data_api that end the handler.
SendChangeset(changeset) ==
    << Called("send_data_creations", changeset.creations, FALSE),
       Called("send_data_removals", changeset.removals, FALSE),
       Called("send_data_renames", changeset.renames, FALSE),
       Called("send_data_updates", changeset.updates, FALSE) >>

\* send_scene_data_to_server(scene, dummy): share_data as it leaves it, its
\* locals, and the calls it makes on bpy_data_proxy, BpyBlendDiff and data_api.
send_scene_data_to_server(sd, depsgraph_updates, selected_objects, edited, changeset) ==
    IF is_canceled(sd)
    THEN [share_data |-> [sd EXCEPT !.skip_next_depsgraph_update = FALSE],
          canceled |-> TRUE, delayed_updates |-> {}, updates |-> {},
          process_delayed_updates |-> FALSE, trace |-> <<>>]
    ELSE LET delayed_updates == DelayedUpdates(depsgraph_updates, selected_objects, edited)
             updates == depsgraph_updates \ delayed_updates
             process_delayed_updates == (delayed_updates = {})
         IN [share_data |-> [sd EXCEPT !.pending_test_update = FALSE],
             canceled |-> FALSE, delayed_updates |-> delayed_updates, updates |-> updates,
             process_delayed_updates |-> process_delayed_updates,
             trace |-> (IF delayed_updates # {}
                        THEN <<Called("append_delayed_updates", delayed_updates, FALSE)>>
                        ELSE <<>>)
                       \o <<Called("diff", {}, FALSE),
                            Called("update", updates, process_delayed_updates)>>
                       \o SendChangeset(changeset)]

InitHandlerSpec ==
    /\ filter_stack = safe_filter
    /\ DEBUG = TRUE
    /\ _properties = EmptyDict
    /\ _unhandled_bpy_data_collection_names = IsNone
    /\ rna_properties = [t \in Types |-> <<>>]
    /\ call = NoCall
    /\ share_data \in { ShareData(skip, pending) : skip \in BOOLEAN, pending \in BOOLEAN }
    /\ handler_call = NoHandlerCall
    /\ InitThreads /\ InitStacks

\* One run of the handler.
SendSceneData ==
    \E depsgraph_updates \in SUBSET Datablocks, selected_objects \in SUBSET Objects,
       edited \in SUBSET Objects, changeset \in Changesets :
        LET r == send_scene_data_to_server(share_data, depsgraph_updates, selected_objects,
                                           edited, changeset)
        IN /\ share_data' = r.share_data
           /\ handler_call' =
                 [ran |-> TRUE,
                  skip_next_depsgraph_update |-> share_data.skip_next_depsgraph_update,
                  pending_test_update |-> share_data.pending_test_update,
                  depsgraph_updates |-> depsgraph_updates,
                  selected_objects |-> selected_objects, edited |-> edited,
                  changeset |-> changeset,
                  canceled |-> r.canceled, delayed_updates |-> r.delayed_updates,
                  updates |-> r.updates,
                  process_delayed_updates |-> r.process_delayed_updates, trace |-> r.trace]
           /\ UNCHANGED <<cacheVars, threadVars, stackVars>>

NextHandler == SendSceneData

SpecHandler == InitHandlerSpec /\ [][NextHandler]_vars

----------------------------------------------------------------------------
\* Properties checked.

RECURSIVE IsSubsequence(_, _)
\* s is t with some elements removed.
IsSubsequence(s, t) ==
    IF s = <<>> THEN TRUE
    ELSE IF t = <<>> THEN FALSE
    ELSE IF Head(s) = Head(t) THEN IsSubsequence(Tail(s), Tail(t))
    ELSE IsSubsequence(s, Tail(t))

\* No element occurs twice in s.
NoDuplicate(s) == \A i, j \in DOMAIN s : s[i] = s[j] => i = j

\* The list a call's FilterStack.apply returned.
Filtered(c) == IF c.applied = <<>> THEN c.input ELSE c.applied[Len(c.applied)].output

\* The classes of the filters a call applied.
AppliedKinds(c) == { c.applied[i].filter.kind : i \in DOMAIN c.applied }

\* C1: the list FilterStack.apply returns is a subsequence of its input (no
\* new element, no duplicate, the original relative order), as is the output
\* of every filter on the way, and the items of the mapping properties()
\* returns are the filtered list's, in its order.
C1_OrderPreserved ==
    /\ \A i \in DOMAIN call.applied :
          call.applied[i].raised = None =>
              IsSubsequence(call.applied[i].output, call.applied[i].input)
    /\ (call.op = "apply" /\ call.raised = None) =>
          /\ call.ret = Filtered(call)
          /\ IsSubsequence(call.ret, call.input)
          /\ NoDuplicate(call.ret)
    /\ (call.op = "properties" /\ call.raised = None /\ call.bl_rna # None) =>
          /\ call.ret = [i \in DOMAIN Filtered(call) |->
                            <<Filtered(call)[i].identifier, Filtered(call)[i]>>]
          /\ IsSubsequence(Filtered(call), call.input)
          /\ NoDuplicate(call.ret)

\* C1 witness: properties() returned two or more of the declared properties,
\* not all, after filters of three classes in a stack of two layers.
C1_Witness ==
    /\ call.op = "properties" /\ call.raised = None
    /\ Len(filter_stack) = 2
    /\ Len(call.ret) >= 2 /\ Len(call.ret) < Len(call.input)
    /\ Cardinality(AppliedKinds(call)) >= 3

----------------------------------------------------------------------------

RECURSIVE Close(_, _)
\* The types reached from those of S by following base, n times at most.
Close(S, n) ==
    IF n = 0 THEN S
    ELSE Close(S \cup { rna_base(x) : x \in { y \in S : rna_base(y) # None } }, n - 1)

\* The keys whose filters concern a type: the type, its direct and transitive
\* bases, and None.
AncestorKeys(bl_rna) == Close({bl_rna}, Cardinality(Types)) \cup {None}

\* The filters registered in a stack under the given keys, each with its
\* layer, its key and its place in the list.
Registered(stack, keys) ==
    UNION { UNION { { [class_ |-> k, layer |-> i, index |-> j, filter |-> stack[i][k].filters[j]] :
                        j \in DOMAIN stack[i][k].filters } :
                    k \in DOMAIN stack[i] \cap keys } :
            i \in DOMAIN stack }

\* The filters applicable to a type, whatever their layer and key.
ApplicableFilters(stack, bl_rna) ==
    { r.filter : r \in Registered(stack, AncestorKeys(bl_rna)) }

\* What an applicable filter would keep of a list alone.
KeptAlone(filter_, props) == Range(Filter_apply(filter_, props, DEBUG).properties)

\* The stack with its layers in another order.
LayerOrders(stack) ==
    { [i \in DOMAIN stack |-> stack[perm[i]]] : perm \in Permutations(DOMAIN stack) }

\* The stack with every filter registered under the keys of a type moved to
\* one of these keys, in the same layer: under the type itself, under None.
Rekeyed(stack, bl_rna, key) ==
    [i \in DOMAIN stack |->
        LET moved == { k \in DOMAIN stack[i] : k \in AncestorKeys(bl_rna) }
            RECURSIVE Gather(_)
            Gather(chain) ==
                IF chain = <<>> THEN <<>>
                ELSE (IF Head(chain) \in moved THEN stack[i][Head(chain)].filters ELSE <<>>)
                     \o Gather(Tail(chain))
        IN IF moved = {} THEN stack[i]
           ELSE [k \in ((DOMAIN stack[i]) \ moved) \cup {key} |->
                    IF k = key THEN FilterList(Gather(bases(bl_rna))) ELSE stack[i][k]]]

\* C2: the list FilterStack.apply returns holds exactly the properties every
\* applicable filter would keep alone, so the same stack with its layers in
\* any other order, or with its applicable filters moved under the type
\* itself or under None, returns the same list; NameFilterIn of vertex,
\* vertices, cameras with NameFilterOut of vertices, wherever they are, keep
\* the properties named vertex and cameras.
C2_Intersection ==
    call.op = "apply" =>
        /\ \A other \in LayerOrders(filter_stack)
                     \cup { Rekeyed(filter_stack, call.bl_rna, call.bl_rna),
                            Rekeyed(filter_stack, call.bl_rna, None) } :
              LET r == FilterStack_apply(other, call.bl_rna, call.input, DEBUG)
              IN /\ r.raised = call.raised
                 /\ call.raised = None => r.properties = call.ret
        /\ call.raised = None =>
              /\ call.ret = SelectAttrs(call.input,
                    { i \in DOMAIN call.input :
                        \A f \in ApplicableFilters(filter_stack, call.bl_rna) :
                            call.input[i] \in KeptAlone(f, call.input) })
              /\ ApplicableFilters(filter_stack, call.bl_rna)
                      = { NameFilterIn(<<"vertex", "vertices", "cameras">>),
                          NameFilterOut(<<"vertices">>) }
                   => { call.ret[i].identifier : i \in DOMAIN call.ret }
                      = { call.input[i].identifier : i \in DOMAIN call.input }
                        \cap {"vertex", "cameras"}

\* C2 witness: the NameFilterIn under Derived in the first layer, the
\* NameFilterOut under None in the second, and vertex and cameras are what is
\* left of vertex, vertices, cameras.
C2_Witness ==
    /\ call.op = "apply" /\ call.raised = None /\ call.bl_rna = "Derived"
    /\ Len(filter_stack) = 2
    /\ filter_stack[1] = ("Derived" :> FilterList(<<NameFilterIn(<<"vertex", "vertices", "cameras">>)>>))
    /\ filter_stack[2] = (None :> FilterList(<<NameFilterOut(<<"vertices">>)>>))
    /\ call.input = <<scalarOfX, collectionOfX, collectionOfY>>
    /\ call.ret = <<scalarOfX, collectionOfY>>

\* C3: the filters applied when a type is evaluated are registered under the
\* type, one of its direct or transitive bases, or None, never under another
\* type, and an evaluation that returns has applied every one of these, once;
\* so TypeFilterOut(MeshVertex) under Base leaves Derived no property whose
\* type is MeshVertex.
C3_AncestorRules ==
    call.op = "apply" =>
        LET applied == { [class_ |-> call.applied[i].class_, layer |-> call.applied[i].layer,
                          index |-> call.applied[i].index, filter |-> call.applied[i].filter] :
                         i \in DOMAIN call.applied }
        IN /\ applied \subseteq Registered(filter_stack, AncestorKeys(call.bl_rna))
           /\ Cardinality(applied) = Len(call.applied)
           /\ call.raised = None =>
                 /\ applied = Registered(filter_stack, AncestorKeys(call.bl_rna))
                 /\ (/\ call.bl_rna = "Derived"
                     /\ \E i \in DOMAIN filter_stack :
                           /\ "Base" \in DOMAIN filter_stack[i]
                           /\ TypeFilterOut({"MeshVertex"}) \in Range(filter_stack[i]["Base"].filters))
                    => \A i \in DOMAIN call.ret : call.ret[i].bl_rna # "MeshVertex"

\* C3 witness: Derived is evaluated with a filter of Root (a transitive base)
\* applied, TypeFilterOut(MeshVertex) under Base and no rule under Derived,
\* and the declared property of type MeshVertex is dropped.
C3_Witness ==
    /\ call.op = "apply" /\ call.raised = None /\ call.bl_rna = "Derived"
    /\ \A i \in DOMAIN filter_stack : "Derived" \notin DOMAIN filter_stack[i]
    /\ \E i \in DOMAIN call.applied :
          /\ call.applied[i].class_ = "Base"
          /\ call.applied[i].filter = TypeFilterOut({"MeshVertex"})
    /\ \E i \in DOMAIN call.applied : call.applied[i].class_ = "Root"
    /\ scalarOfX \in Range(call.input)
    /\ scalarOfX \notin Range(call.ret)
    /\ call.ret # <<>>

\* C4: CollectionFilterOut.apply keeps every property that is not a
\* collection, and drops a collection exactly when its element type is one of
\* the filter's types; a collection of unknown element type is kept.
C4_CollectionFilterOut ==
    \A i \in DOMAIN call.applied :
        LET e == call.applied[i]
        IN e.filter.kind = "CollectionFilterOut" =>
              e.output = SelectAttrs(e.input,
                  { j \in DOMAIN e.input :
                      ~(/\ e.input[j].bl_rna = "CollectionProperty"
                        /\ e.input[j].srna \in e.filter._types) })

----------------------------------------------------------------------------
\* The properties of the cache are stated on the steps of Spec.

\* The names of the cached properties of a type.
CachedNames(bl_rna) == { _properties[bl_rna][i][1] : i \in DOMAIN _properties[bl_rna] }

\* C5: what properties() returns for a type is what the cache holds for it; a
\* cache entry never changes nor disappears; and a call for a cached type,
\* from properties() or from unhandled_bpy_data_collection_names, applies no
\* filter and returns the cached mapping, whatever was appended or queried in
\* between and also when the mapping is empty.
C5_Memoized ==
    /\ [](( /\ call.op = "properties" /\ call.raised = None /\ call.bl_rna # None)
            => /\ call.bl_rna \in DOMAIN _properties
               /\ call.ret = _properties[call.bl_rna])
    /\ [][ /\ \A t \in DOMAIN _properties :
                 t \in DOMAIN _properties' /\ _properties'[t] = _properties[t]
           /\ ( /\ call'.op = "properties" /\ call'.raised = None
                /\ call'.bl_rna \in DOMAIN _properties)
              => /\ call'.applied = <<>>
                 /\ call'.log = NoLog
                 /\ call'.ret = _properties[call'.bl_rna]
           /\ (call'.op = "unhandled" /\ "BlendData" \in DOMAIN _properties)
              => call'.applied = <<>>
         ]_vars

\* C5 witness: with two types cached, one of them is queried again after a
\* layer was appended: no filter is applied, and the mapping cached first is
\* returned, which is not what the stack would give now.
C5_Witness ==
    /\ call.op = "properties" /\ call.raised = None /\ call.bl_rna = "Root"
    /\ call.applied = <<>>
    /\ DOMAIN _properties = {"Root", "BlendData"}
    /\ call.ret # DictFromList(FilterStack_apply(filter_stack, "Root", rna_properties["Root"],
                                                 DEBUG).properties)

\* C6: properties() with neither bl_rna_property nor bpy_type fails.
C6_NoArgumentFails ==
    (call.op = "properties" /\ call.bl_rna_property = None /\ call.bpy_type = None)
        => call.raised # None

\* C7: properties() with both bl_rna_property and bpy_type raises, applies no
\* filter and leaves the cache and the unhandled names as they were.
C7_BothArgumentsFail ==
    [][ (call'.op = "properties" /\ call'.bl_rna_property # None /\ call'.bpy_type # None)
        => /\ call'.raised = "ValueError"
           /\ call'.applied = <<>>
           /\ _properties' = _properties
           /\ _unhandled_bpy_data_collection_names' = _unhandled_bpy_data_collection_names
      ]_vars

\* C7 witness: the call with both arguments has raised, with a type cached
\* and the type of bl_rna_property not cached.
C7_Witness ==
    /\ call.op = "properties" /\ call.raised = "ValueError"
    /\ call.bl_rna_property = "Derived" /\ call.bpy_type = "Root"
    /\ DOMAIN _properties = {"Root"}
    /\ filter_stack # <<>>

\* The stack without its FuncFilterOut filters.
WithoutFuncFilterOut(stack) ==
    [i \in DOMAIN stack |->
        [k \in DOMAIN stack[i] |->
            [stack[i][k] EXCEPT !.filters = SelectSeq(@, LAMBDA f : f.kind # "FuncFilterOut")]]]

\* C8: a FuncFilterOut under a key of the evaluated type changes nothing: the
\* evaluation raises nothing and returns what the stack without it returns.
C8_FuncFilterOutIdentity ==
    ( /\ call.op = "apply"
      /\ FuncFilterOut \in ApplicableFilters(filter_stack, call.bl_rna))
    => /\ call.raised = None
       /\ call.ret = FilterStack_apply(WithoutFuncFilterOut(filter_stack), call.bl_rna,
                                       call.input, DEBUG).properties

\* C9: NameFilterOut.apply raises nothing and returns its input without the
\* properties named in names, with DEBUG on or off; with DEBUG on it warns
\* once about each distinct name of names that no property of the input has
\* and that is not in _exclude_names, and about no other name.
C9_StaleNameWarning ==
    \A i \in DOMAIN call.applied :
        LET e == call.applied[i]
            names == Range(e.filter._names)
            stale == { n \in names :
                         /\ n \notin _exclude_names
                         /\ \A j \in DOMAIN e.input : e.input[j].identifier # n }
        IN e.filter.kind = "NameFilterOut" =>
              /\ e.raised = None
              /\ e.output = SelectAttrs(e.input,
                      { j \in DOMAIN e.input : e.input[j].identifier \notin names })
              /\ e.log = IF DEBUG THEN [n \in stale |-> 1] ELSE EmptyBag

\* C9 witness: with DEBUG on, a NameFilterOut that names typo twice, users and
\* vertices has dropped vertices and warned about typo once, not about users,
\* which the input does not hold either.
C9_Witness ==
    /\ DEBUG
    /\ \E i \in DOMAIN call.applied :
          LET e == call.applied[i]
          IN /\ e.filter = NameFilterOut(<<"vertices", "users", "typo", "typo">>)
             /\ collectionOfX \in Range(e.input)
             /\ collectionOfX \notin Range(e.output)
             /\ scalarUsers \notin Range(e.input)
             /\ e.log = SetToBag({"typo"})

\* C10: once computed, unhandled_bpy_data_collection_names is the names of the
\* collections of bpy.data without the names properties() returns for
\* BlendData, and it is what the read returns; every later read returns it
\* unchanged and calls properties() no more, also when it is empty.
C10_Unhandled ==
    /\ []( /\ ~_unhandled_bpy_data_collection_names.is_None
              => /\ "BlendData" \in DOMAIN _properties
                 /\ _unhandled_bpy_data_collection_names.names
                      = collection_name_to_type_keys(rna_properties) \ CachedNames("BlendData")
           /\ (call.op = "unhandled" /\ call.raised = None)
              => /\ ~_unhandled_bpy_data_collection_names.is_None
                 /\ call.ret = _unhandled_bpy_data_collection_names.names )
    /\ [][ ~_unhandled_bpy_data_collection_names.is_None
           => /\ _unhandled_bpy_data_collection_names' = _unhandled_bpy_data_collection_names
              /\ call'.op = "unhandled"
                 => /\ call'.bl_rna = None
                    /\ call'.applied = <<>>
                    /\ _properties' = _properties
         ]_vars

\* C10 witness: a read after the first one returns brushes, the collection
\* the safe configuration leaves out, with cameras handled.
C10_Witness ==
    /\ call.op = "unhandled" /\ call.bl_rna = None
    /\ call.ret = {"brushes"}
    /\ "cameras" \in CachedNames("BlendData")
    /\ safe_blenddata \in Range(filter_stack)

\* C10 witness of the empty case: a read after the first one returns the
\* empty set although bpy.data has collections.
C10_WitnessEmpty ==
    /\ call.op = "unhandled" /\ call.bl_rna = None
    /\ call.ret = {}
    /\ collection_name_to_type_keys(rna_properties) # {}

----------------------------------------------------------------------------
\* The properties of concurrent calls are stated on SpecThreads.

\* The mapping a complete evaluation of a type gives.
Complete(bl_rna) ==
    DictFromList(FilterStack_apply(filter_stack, bl_rna, rna_properties[bl_rna], DEBUG).properties)

\* C11: with several threads in properties() for one type, the cache entry of
\* the type is assigned once at most and the filter stack is evaluated once
\* at most for the type.
C11_SingleWriter ==
    \A bl_rna \in Types : cache_writes[bl_rna] <= 1 /\ evaluations[bl_rna] <= 1

\* C12: whatever the interleaving, every mapping a call of properties()
\* returns for a type, every mapping about to be stored or returned, and every
\* entry of the cache is the mapping of the complete evaluation of the type.
C12_NeverPartial ==
    /\ \A bl_rna \in DOMAIN _properties : _properties[bl_rna] = Complete(bl_rna)
    /\ \A t \in Threads :
          /\ threads[t].returned => threads[t].ret = Complete(threads[t].bl_rna)
          /\ threads[t].pc \in {"store", "return"}
                => threads[t].bl_rna_properties = Complete(threads[t].bl_rna)

\* C12 witness: two threads have both evaluated and stored the same type, one
\* has returned, the other is about to, and the mapping is a strict, non-empty
\* part of what the type declares.
C12_Witness ==
    \E t, u \in Threads :
        /\ t # u
        /\ threads[t].bl_rna = "BlendData" /\ threads[u].bl_rna = "BlendData"
        /\ threads[t].returned /\ threads[u].pc = "return"
        /\ cache_writes["BlendData"] = 2
        /\ threads[t].ret # <<>>
        /\ Len(threads[t].ret) < Len(rna_properties["BlendData"])

----------------------------------------------------------------------------
\* The properties of the two stacks are stated on the steps of SpecStacks.

\* The layers a stack holds.
LayersOf(h, self) == h[stacks[self]]

\* C13: an append to one of test_filter and safe_filter leaves the layer list
\* of the other as it was, and the other evaluates every type to the same
\* result as before, also when both hold the same FilterSet.
C13_NoSharedState ==
    [][ \A self \in StackNames : \A other \in StackNames \ {self} :
            (stack_call'.op = "append" /\ stack_call'.self = self)
            => /\ LayersOf(heap', other) = LayersOf(heap, other)
               /\ \A bl_rna \in Types :
                     FilterStack_apply(LayersOf(heap', other), bl_rna,
                                       heap'[stacks.properties], DEBUG)
                       = FilterStack_apply(LayersOf(heap, other), bl_rna,
                                           heap[stacks.properties], DEBUG)
      ]_vars

\* C13 witness: default_exclusions is the first layer of both stacks, and
\* test_filter has just been given a second layer that safe_filter has not.
C13_Witness ==
    /\ stack_call.op = "append" /\ stack_call.self = "test_filter"
    /\ Len(LayersOf(heap, "test_filter")) = 2
    /\ LayersOf(heap, "safe_filter") = FilterStack_append(<<>>, default_exclusions)
    /\ LayersOf(heap, "test_filter")[1] = LayersOf(heap, "safe_filter")[1]
    /\ LayersOf(heap, "test_filter")[2] = FilterStack_append(<<>>, safe_blenddata)[1]

\* C14: an evaluation writes no object: the layer lists of both stacks, every
\* layer in them and the list passed in are as before; an append gives the
\* list of its stack one more, last layer and writes nothing else; and no
\* other step changes an object.
C14_ApplyReadsOnly ==
    [][ /\ stack_call'.op = "apply" => heap' = heap
        /\ stack_call'.op = "append"
             => LET ref == stacks[stack_call'.self]
                IN /\ Len(heap'[ref]) = Len(heap[ref]) + 1
                   /\ SubSeq(heap'[ref], 1, Len(heap[ref])) = heap[ref]
                   /\ \A o \in DOMAIN heap : o # ref => heap'[o] = heap[o]
        /\ DOMAIN heap' = DOMAIN heap
        /\ stacks' = stacks
        /\ heap' # heap => stack_call'.op = "append"
      ]_vars

\* C14 witness: safe_filter with its three layers has been evaluated for
\* BlendData on a list of four properties and has returned one of them.
C14_Witness ==
    /\ stack_call.op = "apply" /\ stack_call.self = "safe_filter"
    /\ stack_call.bl_rna = "BlendData" /\ stack_call.raised = None
    /\ Len(heap[stacks.properties]) = 4
    /\ Len(stack_call.ret) = 1
    /\ Len(LayersOf(heap, "safe_filter")) >= 2

----------------------------------------------------------------------------
\* The property of the safe configuration is stated on SpecSafe.

\* The names T.BlendData declares as collections.
DeclaredCollections ==
    { rna_properties["BlendData"][i].identifier :
        i \in { j \in DOMAIN rna_properties["BlendData"] :
                  rna_properties["BlendData"][j].bl_rna = "CollectionProperty" } }

\* C15: whatever T.BlendData declares, the names safe_properties returns for
\* it are names of safe_blenddata_collections, every name of
\* safe_blenddata_collections declared as a collection is among them, and
\* none of these is in unhandled_bpy_data_collection_names.
C15_SafeConsistent ==
    /\ (call.op = "properties" /\ call.bl_rna = "BlendData")
          => /\ call.raised = None
             /\ { call.ret[i][1] : i \in DOMAIN call.ret }
                  = Range(safe_blenddata_collections) \cap DeclaredCollections
    /\ "BlendData" \in DOMAIN _properties
          => CachedNames("BlendData") = Range(safe_blenddata_collections) \cap DeclaredCollections
    /\ call.op = "unhandled"
          => /\ call.raised = None
             /\ call.ret \cap Range(safe_blenddata_collections) = {}
             /\ call.ret = DeclaredCollections \ Range(safe_blenddata_collections)

\* C15 witness: bpy.data declares cameras, lights and meshes as collections,
\* scenes not as a collection, and brushes and vertices; the three safe
\* collections are returned, and brushes and vertices are unhandled.
C15_Witness ==
    /\ call.op = "unhandled"
    /\ rna_properties["BlendData"] = BlendDataProperties
    /\ CachedNames("BlendData") = {"cameras", "lights", "meshes"}
    /\ call.ret = {"brushes", "vertices"}

----------------------------------------------------------------------------
\* The order of an evaluation is stated on SpecApply.

RECURSIVE Distance(_, _)
\* The number of steps of base from a type up to one of its bases, None being
\* the last one.
Distance(from, to) ==
    IF from = to THEN 0 ELSE 1 + Distance(rna_base(from), to)

\* One filter invocation comes before another in the order of the walk: a
\* nearer class first, then an earlier layer, then an earlier place in the list.
WalkBefore(bl_rna, e, f) ==
    LET de == Distance(bl_rna, e.class_)
        df == Distance(bl_rna, f.class_)
    IN \/ de < df
       \/ de = df /\ e.layer < f.layer
       \/ de = df /\ e.layer = f.layer /\ e.index < f.index

\* C16: an evaluation ends; its filter invocations come in the order of the
\* walk (the type, then each base, most specific first, None last; within a
\* class the layers in the order of append; within a layer the list order),
\* none twice; the first gets the list passed in and each next one the output
\* of the one before; an evaluation that raises nothing has invoked every
\* filter registered under the type, its bases and None, and returns the last
\* output; a layer without an entry for a class adds nothing and raises
\* nothing; a single Filter as a value is invoked as a list of one.
C16_WalkOrder ==
    call.op = "apply" =>
        LET a == call.applied
            place(e) == [class_ |-> e.class_, layer |-> e.layer, index |-> e.index,
                         filter |-> e.filter]
        IN /\ \A i \in DOMAIN a : a[i].class_ \in AncestorKeys(call.bl_rna)
           /\ \A i, j \in DOMAIN a : i < j => WalkBefore(call.bl_rna, a[i], a[j])
           /\ \A i \in DOMAIN a :
                 /\ a[i].input = IF i = 1 THEN call.input ELSE a[i - 1].output
                 /\ a[i].raised # None => i = Len(a)
                 /\ a[i].class_ \in DOMAIN filter_stack[a[i].layer]
                 /\ a[i].filter = filter_stack[a[i].layer][a[i].class_].filters[a[i].index]
                 /\ ~filter_stack[a[i].layer][a[i].class_].iterable => a[i].index = 1
           /\ call.raised = (IF a = <<>> THEN None ELSE a[Len(a)].raised)
           /\ call.raised = None
                 => /\ { place(a[i]) : i \in DOMAIN a }
                        = Registered(filter_stack, AncestorKeys(call.bl_rna))
                    /\ call.ret = Filtered(call)

\* C16 witness: Derived is evaluated on a stack of two layers; filters of
\* Derived, of Base in both layers (the second a single Filter, not a list)
\* and of None are invoked, in this order, and no layer has an entry for Root.
C16_Witness ==
    /\ call.op = "apply" /\ call.bl_rna = "Derived" /\ call.raised = None
    /\ Len(filter_stack) = 2
    /\ \A i \in DOMAIN filter_stack : "Root" \notin DOMAIN filter_stack[i]
    /\ \E i, j, k, l \in DOMAIN call.applied :
          /\ i < j /\ j < k /\ k < l
          /\ call.applied[i].class_ = "Derived"
          /\ call.applied[j].class_ = "Base" /\ call.applied[j].layer = 1
          /\ call.applied[k].class_ = "Base" /\ call.applied[k].layer = 2
          /\ ~filter_stack[2]["Base"].iterable
          /\ call.applied[l].class_ = None
          /\ call.applied[l].input # call.input

\* C17: only NameFilterOut warns: an invocation of a filter of any other
\* class logs nothing, so an evaluation that invokes no NameFilterOut logs
\* nothing, whatever the names of its NameFilterIn filters.
C17_OnlyNameFilterOutWarns ==
    /\ \A i \in DOMAIN call.applied :
          call.applied[i].filter.kind # "NameFilterOut" => call.applied[i].log = NoLog
    /\ "NameFilterOut" \notin AppliedKinds(call) => call.log = NoLog

----------------------------------------------------------------------------
\* The properties of the handler are stated on SpecHandler: handler_call holds
\* what the last run found and did, share_data what it left.

\* The places of the calls of a function in the calls of the last run.
CallsOf(fn) == { i \in DOMAIN handler_call.trace : handler_call.trace[i].fn = fn }

\* The functions that send a part of the changeset.
SendFunctions ==
    {"send_data_creations", "send_data_removals", "send_data_renames", "send_data_updates"}

\* C18: a run is canceled exactly when skip_next_depsgraph_update is set and
\* pending_test_update is not; a canceled run resets
\* skip_next_depsgraph_update and calls nothing; any other run, so every run
\* with pending_test_update set, clears pending_test_update, computes the
\* diff, updates the proxy and sends the changeset.
C18_SelfEventsSkipped ==
    handler_call.ran =>
        /\ handler_call.canceled
             <=> (handler_call.skip_next_depsgraph_update /\ ~handler_call.pending_test_update)
        /\ handler_call.canceled
             => /\ share_data.skip_next_depsgraph_update = FALSE
                /\ share_data.pending_test_update = handler_call.pending_test_update
                /\ handler_call.trace = <<>>
        /\ ~handler_call.canceled
             => /\ share_data.pending_test_update = FALSE
                /\ share_data.skip_next_depsgraph_update
                     = handler_call.skip_next_depsgraph_update
                /\ \A fn \in {"diff", "update"} \cup SendFunctions : CallsOf(fn) # {}

\* C18 witness: a run that found both skip_next_depsgraph_update and
\* pending_test_update set went through to the sends.
C18_Witness ==
    /\ handler_call.ran /\ ~handler_call.canceled
    /\ handler_call.skip_next_depsgraph_update /\ handler_call.pending_test_update
    /\ CallsOf("send_data_updates") # {}
    /\ ~share_data.pending_test_update

\* C19: a run that is not canceled sends the creations, the removals, the
\* renames and the updates of the changeset, in this order, each once, after
\* the one diff and the one update of the proxy, and calls nothing after.
C19_SendOrder ==
    (handler_call.ran /\ ~handler_call.canceled) =>
        LET trace == handler_call.trace
            n == Len(trace)
        IN /\ n >= 6
           /\ SubSeq(trace, n - 3, n)
                = << Called("send_data_creations", handler_call.changeset.creations, FALSE),
                     Called("send_data_removals", handler_call.changeset.removals, FALSE),
                     Called("send_data_renames", handler_call.changeset.renames, FALSE),
                     Called("send_data_updates", handler_call.changeset.updates, FALSE) >>
           /\ \A fn \in SendFunctions \cup {"diff", "update"} : Cardinality(CallsOf(fn)) = 1
           /\ CallsOf("diff") = {n - 5}
           /\ CallsOf("update") = {n - 4}

\* C19 witness: a run with delayed updates and a changeset that creates and
\* updates Lamp has made its seven calls.
C19_Witness ==
    /\ handler_call.ran /\ ~handler_call.canceled
    /\ Len(handler_call.trace) = 7
    /\ "Lamp" \in handler_call.changeset.creations \cap handler_call.changeset.updates
    /\ CallsOf("send_data_creations") = {4}
    /\ CallsOf("send_data_updates") = {7}

\* C20: in a run that is not canceled, every updated datablock that is
\* selected, not in OBJECT mode and has data is delayed with its data, and
\* nothing else is; the updates given to bpy_data_proxy.update have nothing in
\* common with the delayed ones and with them hold every depsgraph update;
\* append_delayed_updates is called, with the delayed ones, exactly when there
\* are some; and process_delayed_updates is true exactly when there are none.
C20_DelayedUpdates ==
    (handler_call.ran /\ ~handler_call.canceled) =>
        LET h == handler_call
            toDelay == { d \in h.depsgraph_updates :
                           /\ d \in h.selected_objects
                           /\ d \in h.edited
                           /\ datablock_data(d) # None }
        IN /\ \A d \in toDelay : d \in h.delayed_updates /\ datablock_data(d) \in h.delayed_updates
           /\ h.delayed_updates \subseteq toDelay \cup { datablock_data(d) : d \in toDelay }
           /\ h.updates \cap h.delayed_updates = {}
           /\ h.depsgraph_updates \subseteq h.updates \cup h.delayed_updates
           /\ h.updates \subseteq h.depsgraph_updates
           /\ \A i \in CallsOf("update") :
                 /\ h.trace[i].arg = h.updates
                 /\ h.trace[i].flag = h.process_delayed_updates
           /\ CallsOf("append_delayed_updates") # {} <=> h.delayed_updates # {}
           /\ \A i \in CallsOf("append_delayed_updates") :
                 i = 1 /\ h.trace[i].arg = h.delayed_updates
           /\ h.process_delayed_updates <=> h.delayed_updates = {}

\* C20 witness: Cube and Empty are updated, selected and edited, the mesh of
\* Cube and Scene are updated too: Cube and its mesh are delayed, Empty, which
\* has no data, and Scene are given to the proxy, and process_delayed_updates
\* is false.
C20_Witness ==
    /\ handler_call.ran /\ ~handler_call.canceled
    /\ handler_call.depsgraph_updates = Datablocks
    /\ handler_call.selected_objects = Objects /\ handler_call.edited = Objects
    /\ handler_call.delayed_updates = {"Cube", "CubeMesh"}
    /\ handler_call.updates = {"Empty", "Scene"}
    /\ ~handler_call.process_delayed_updates
    /\ CallsOf("append_delayed_updates") = {1}

====
